---- MODULE Spec2Model ----
(***************************************************************************)
(* iptvTester.py: main() probes every playlist entry with test_channel on  *)
(* a ThreadPoolExecutor.  test_channel spawns ffplay, a reader thread       *)
(* appends the stderr lines to output_lines, and a polling loop classifies  *)
(* the stream by keywords and elapsed time, then terminates the process.    *)
(*                                                                         *)
(* Time is counted in poll ticks: one tick is one time.sleep(0.2).  A line  *)
(* of ffplay's stderr is modelled by the set of keywords that occur in it,  *)
(* so that `k in line` is membership.                                       *)
(***************************************************************************)
EXTENDS Integers, Sequences, FiniteSets, TLC

\* ------------------------------------------------------------------ bounds
MaxEntries == 3        \* longest playlist explored
MaxLines == 2          \* most stderr lines one ffplay process prints (SpecSession)
MaxFileLines == 3
PoolMaxLines == 1      \* the same, in the pool specification (Spec)
PoolTicksPerUnit == 1  \* clock resolution of the pool specification (Spec)
max_threads == 2       \* pool size; main() sets 10, scaled so that a playlist can exceed it

\* ------------------------------------------------------- program constants
TicksPerUnit == 5      \* time.sleep(0.2): five polls per time unit
main_timeout == 4
main_grace_period == 1
main_extended_check == 2
wait_timeout == 2      \* process.wait(timeout=2)

success_keywords == {"Stream #", "Video:", "Duration:"}
connecting_keywords == {"Opening", "buffer", "Cache", "Connected", "AVIO"}

\* The stderr lines a modelled ffplay can print: a line without keyword, a
\* stream descriptor line, a line that reports the opening of the input.
Lines == { {}, {"Stream #", "Video:"}, {"Opening"} }

\* The (name, url) pairs a playlist can hold: names need not be unique.
Channels == { <<"A", "http://u1">>, <<"A", "http://u2">> }

Sessions == 1..MaxEntries

VARIABLES
  platform,              \* platform.system()
  playlist_exists,       \* os.path.exists(playlist_file)
  m3u_lines,             \* main: lines, what f.readlines() returns
  log_file,              \* stream_test_log.txt: "absent" | "old" (left by an earlier run) | "created"
  scale,                 \* poll ticks per time unit of this run
  line_cap,              \* most stderr lines a process of this run prints
  entries,               \* main: entries
  main_pc,               \* main: position
  submitted,             \* main: number of executor.submit calls made
  future,                \* per future: "unsubmitted" | "pending" | "running" | "finished" | "raised"
  future_result,         \* per future: the tuple test_channel returned, else << >>
  yielded,               \* futures as_completed has handed to the loop body
  worker,                \* per pool thread: the future it runs, 0 when idle
  working_channels,      \* main: dict name -> url, as a set of pairs
  not_working_channels,  \* main: dict name -> url, as a set of pairs
  log,                   \* stream_test_log.txt: the records log_result appended
  pc,                    \* per session: position in test_channel
  now,                   \* per session: time.time() - start_time, in ticks
  extra_time,            \* per session: value of now when the extended loop began
  success_detected,
  connection_detected,
  output_lines,          \* per session: the list read_stderr appends to
  reader,                \* per session: stderr_thread is running
  proc,                  \* per session: "none" | "running" | "exited" | "stopped" | "killed"
  sent,                  \* per session: termination calls issued, in order
  waited,                \* per session: ticks spent in process.wait
  verdict,               \* per session: the line printed: "SUCCESS" | "MAYBE" | "FAIL" | "ERROR" | "none"
  result,                \* per session: third component of the returned tuple
  succ_at,               \* per session: the tick at which the first success line was there, -1 if none
  css_pc,                \* check_stream_status: position, "idle" when it is not called
  css_now,               \* check_stream_status: time.time() - start_time, in ticks
  css_extra_time,
  css_success_detected,
  css_connection_detected,
  css_proc,              \* check_stream_status: its ffplay process
  css_sent,              \* check_stream_status: termination calls issued, in order
  css_waited,
  css_verdict,           \* check_stream_status: the line printed
  css_result             \* check_stream_status: the value returned

config == <<platform, playlist_exists, m3u_lines, scale, line_cap>>   \* the inputs of a run
mainVars == <<config, entries, log_file, main_pc, submitted, future, future_result,
              yielded, worker, working_channels, not_working_channels, log>>
sessVars == <<pc, now, extra_time, success_detected, connection_detected,
              output_lines, reader, proc, sent, waited, verdict, result, succ_at>>
cssVars == <<css_pc, css_now, css_extra_time, css_success_detected,
             css_connection_detected, css_proc, css_sent, css_waited, css_verdict,
             css_result>>
vars == <<mainVars, sessVars, cssVars>>

\* ------------------------------------------------------------- timing policy
timeout == main_timeout * scale
grace_period == main_grace_period * scale
extended_check == main_extended_check * scale

\* process.wait with half the timeout
WaitTicksShort == scale

\* line 88: process.wait(timeout=2)
WaitTicks == wait_timeout * scale

\* ------------------------------------------------------------------ helpers
HasSuccess(lines) == \E n \in 1..Len(lines) : lines[n] \cap success_keywords # {}
HasConnecting(lines) == \E n \in 1..Len(lines) : lines[n] \cap connecting_keywords # {}

\* a flag recomputed from the newest line only
ScanNewest(flag, lines, keywords) ==
  Len(lines) > 0 /\ lines[Len(lines)] \cap keywords # {}

\* lines 54-58: a line with a keyword sets the flag; nothing clears it
Scan(flag, lines, keywords) ==
  flag \/ \E n \in 1..Len(lines) : lines[n] \cap keywords # {}

\* line 60 with > for >=
HonorSuccessStrict(sd, current_time) == sd /\ current_time > grace_period

\* line 60 without its grace test
HonorSuccessNoGrace(sd, current_time) == sd

\* line 60: a detected success ends the main loop only after the grace period
HonorSuccess(sd, current_time) == sd /\ current_time >= grace_period

\* line 66 without its success test
NeedsExtendedAnyway(sd, cd) == cd

\* line 66: the extended loop runs only when connecting but no video yet
NeedsExtended(sd, cd) == cd /\ ~sd

\* line 81 without its test
StillRunningAlways(p) == TRUE

\* line 81: the termination block runs only on a live process
StillRunning(p) == p = "running"

\* lines 92-100 with the first two branches in the other order
VerdictConnFirst(sd, cd) == IF cd THEN "MAYBE" ELSE IF sd THEN "SUCCESS" ELSE "FAIL"

\* lines 92-100: the line printed and the third component of the tuple
Verdict(sd, cd) == IF sd THEN "SUCCESS" ELSE IF cd THEN "MAYBE" ELSE "FAIL"
ResultOf(v) == v = "SUCCESS"

\* ---------------------------------------------------------------- test_channel
\* a handler that prints and raises again
ExceptReraise(i) ==
  /\ verdict' = [verdict EXCEPT ![i] = "ERROR"]
  /\ result' = result
  /\ pc' = [pc EXCEPT ![i] = "raising"]

\* lines 102-104: the handler prints and returns (name, url, False)
Except(i) ==
  /\ verdict' = [verdict EXCEPT ![i] = "ERROR"]
  /\ result' = [result EXCEPT ![i] = FALSE]
  /\ pc' = [pc EXCEPT ![i] = "returning"]

\* A call of test_channel is in flight from WorkerTake to Return; its body is
\* under way once Start has been taken.  The calls share no variable, so a
\* step of one body commutes with every step of another: the bodies are run
\* one after another, in any order, while the calls overlap.
InBody(i) == pc[i] \in {"main", "extended", "terminate", "wait", "verdict", "returning", "raising"}

\* lines 26-47: Popen, the reader thread, the initialisations.  Popen can
\* raise (ffplay missing), and so can Thread.start (no thread available) with
\* the process already spawned; both land in the handler of lines 102-104.
Start(i) ==
  /\ pc[i] = "start"
  /\ \A j \in Sessions : ~InBody(j)
  /\ \/ /\ Except(i)
        /\ UNCHANGED <<proc, reader, now>>
     \/ /\ proc' = [proc EXCEPT ![i] = "running"]
        /\ Except(i)
        /\ UNCHANGED <<reader, now>>
     \/ /\ proc' = [proc EXCEPT ![i] = "running"]
        /\ reader' = [reader EXCEPT ![i] = TRUE]
        /\ now' = [now EXCEPT ![i] = 0]
        /\ pc' = [pc EXCEPT ![i] = "main"]
        /\ UNCHANGED <<verdict, result>>
  /\ UNCHANGED <<extra_time, success_detected, connection_detected, output_lines,
                 sent, waited, succ_at>>
  /\ UNCHANGED <<mainVars, cssVars>>

\* lines 35-37: the reader thread appends one line of the process's stderr
read_stderr(i, line) ==
  /\ reader[i]
  /\ proc[i] = "running"
  /\ Len(output_lines[i]) < line_cap
  /\ output_lines' = [output_lines EXCEPT ![i] = Append(@, line)]
  /\ succ_at' = [succ_at EXCEPT ![i] =
                   IF @ = -1 /\ line \cap success_keywords # {} THEN now[i] ELSE @]
  /\ UNCHANGED <<pc, now, extra_time, success_detected, connection_detected, reader,
                 proc, sent, waited, verdict, result>>
  /\ UNCHANGED <<mainVars, cssVars>>

\* the ffplay process ends: by itself, or after process.terminate() reached it
ProcessExit(i) ==
  /\ proc[i] = "running"
  /\ proc' = [proc EXCEPT ![i] = IF pc[i] = "done" THEN "none"
                                  ELSE IF sent[i] = << >> THEN "exited" ELSE "stopped"]
  /\ UNCHANGED <<pc, now, extra_time, success_detected, connection_detected,
                 output_lines, reader, sent, waited, verdict, result, succ_at>>
  /\ UNCHANGED <<mainVars, cssVars>>

\* after the main loop: line 66 decides between the extended loop and termination
AfterMain(i, sd, cd) ==
  IF NeedsExtended(sd, cd)
    THEN /\ pc' = [pc EXCEPT ![i] = "extended"]
         /\ extra_time' = [extra_time EXCEPT ![i] = now[i]]
    ELSE /\ pc' = [pc EXCEPT ![i] = "terminate"]
         /\ UNCHANGED extra_time

\* lines 49-63: one pass of the main loop, the sleep included
MainLoop(i) ==
  /\ pc[i] = "main"
  /\ IF now[i] >= timeout \/ proc[i] # "running"
       THEN /\ AfterMain(i, success_detected[i], connection_detected[i])
            /\ UNCHANGED <<now, success_detected, connection_detected>>
       ELSE LET sd == Scan(success_detected[i], output_lines[i], success_keywords)
                cd == Scan(connection_detected[i], output_lines[i], connecting_keywords)
            IN /\ success_detected' = [success_detected EXCEPT ![i] = sd]
               /\ connection_detected' = [connection_detected EXCEPT ![i] = cd]
               /\ IF HonorSuccess(sd, now[i])
                    THEN AfterMain(i, sd, cd) /\ UNCHANGED now
                    ELSE /\ now' = [now EXCEPT ![i] = @ + 1]
                         /\ UNCHANGED <<pc, extra_time>>
  /\ UNCHANGED <<output_lines, reader, proc, sent, waited, verdict, result, succ_at>>
  /\ UNCHANGED <<mainVars, cssVars>>

\* lines 69-78: one pass of the extended loop, the sleep included
ExtendedLoop(i) ==
  /\ pc[i] = "extended"
  /\ IF now[i] - extra_time[i] >= extended_check \/ proc[i] # "running"
       THEN /\ pc' = [pc EXCEPT ![i] = "terminate"]
            /\ UNCHANGED <<now, success_detected>>
       ELSE IF HasSuccess(output_lines[i])
         THEN /\ success_detected' = [success_detected EXCEPT ![i] = TRUE]
              /\ pc' = [pc EXCEPT ![i] = "terminate"]
              /\ UNCHANGED now
         ELSE /\ now' = [now EXCEPT ![i] = @ + 1]
              /\ UNCHANGED <<pc, success_detected>>
  /\ UNCHANGED <<extra_time, connection_detected, output_lines, reader, proc, sent,
                 waited, verdict, result, succ_at>>
  /\ UNCHANGED <<mainVars, cssVars>>

\* lines 81-86: taskkill on Windows (the call itself can raise OSError, which
\* lands in the handler), process.terminate() elsewhere
Terminate(i) ==
  /\ pc[i] = "terminate"
  /\ IF StillRunning(proc[i])
       THEN IF platform = "Windows"
              THEN \/ /\ proc' = [proc EXCEPT ![i] = IF @ = "running" THEN "killed" ELSE @]
                      /\ sent' = [sent EXCEPT ![i] = Append(@, "taskkill")]
                      /\ pc' = [pc EXCEPT ![i] = "verdict"]
                      /\ UNCHANGED <<verdict, result>>
                   \/ /\ Except(i)
                      /\ UNCHANGED <<proc, sent>>
              ELSE /\ sent' = [sent EXCEPT ![i] = Append(@, "terminate")]
                   /\ pc' = [pc EXCEPT ![i] = "wait"]
                   /\ UNCHANGED <<proc, verdict, result>>
       ELSE /\ pc' = [pc EXCEPT ![i] = "verdict"]
            /\ UNCHANGED <<proc, sent, verdict, result>>
  /\ UNCHANGED <<now, extra_time, success_detected, connection_detected, output_lines,
                 reader, waited, succ_at>>
  /\ UNCHANGED <<mainVars, cssVars>>

\* lines 87-90: process.wait(timeout=2), one tick at a time; kill on TimeoutExpired
Wait(i) ==
  /\ pc[i] = "wait"
  /\ IF proc[i] # "running"
       THEN /\ sent' = [sent EXCEPT ![i] = Append(@, "wait")]
            /\ pc' = [pc EXCEPT ![i] = "verdict"]
            /\ UNCHANGED <<proc, waited, now>>
       ELSE IF waited[i] >= WaitTicks
         THEN /\ sent' = [sent EXCEPT ![i] = Append(Append(@, "wait"), "kill")]
              /\ proc' = [proc EXCEPT ![i] = "killed"]
              /\ pc' = [pc EXCEPT ![i] = "verdict"]
              /\ UNCHANGED <<waited, now>>
         ELSE /\ waited' = [waited EXCEPT ![i] = @ + 1]
              /\ now' = [now EXCEPT ![i] = @ + 1]
              /\ UNCHANGED <<proc, sent, pc>>
  /\ UNCHANGED <<extra_time, success_detected, connection_detected, output_lines,
                 reader, verdict, result, succ_at>>
  /\ UNCHANGED <<mainVars, cssVars>>

\* lines 92-100: print the verdict and build the returned tuple
Decide(i) ==
  /\ pc[i] = "verdict"
  /\ verdict' = [verdict EXCEPT ![i] = Verdict(success_detected[i], connection_detected[i])]
  /\ result' = [result EXCEPT ![i] = ResultOf(verdict'[i])]
  /\ pc' = [pc EXCEPT ![i] = "returning"]
  /\ UNCHANGED <<now, extra_time, success_detected, connection_detected, output_lines,
                 reader, proc, sent, waited, succ_at>>
  /\ UNCHANGED <<mainVars, cssVars>>

\* --------------------------------------------------------- check_stream_status
\* check_stream_status(name, url, timeout, grace_period, extended_check) called
\* next to the call of test_channel for entry 1, with the arguments of that
\* call, on an ffplay process that prints what the other prints (the lines of
\* output_lines[1]) and exits when the other exits.
css_success_keywords == {"Stream #", "Video:", "Opening", "AVFormat", "Duration:"}
css_connecting_keywords == {"Opening", "buffer", "Cache", "Connected", "AVIO"}

\* lines 161-165: a line with a keyword sets the flag
css_Scan(flag, lines, keywords) ==
  flag \/ \E n \in 1..Len(lines) : lines[n] \cap keywords # {}

\* line 168 with > for >=
css_HonorSuccessStrict(sd, current_time) == sd /\ current_time > grace_period

\* line 168
css_HonorSuccess(sd, current_time) == sd /\ current_time >= grace_period

\* line 174
css_NeedsExtended(sd, cd) == cd /\ ~sd

\* lines 199-207: the line printed; True is returned for SUCCESS only
css_Verdict(sd, cd) == IF sd THEN "SUCCESS" ELSE IF cd THEN "MAYBE" ELSE "FAIL"

\* The two calls advance in turn, one step each: test_channel when both are
\* at the same place and time, check_stream_status when it is behind (or has
\* taken another way).  The processes print and exit between two such rounds.
SamePlace == css_pc = pc[1] /\ css_now = now[1]
TcTurn == SamePlace \/ css_pc = "returning"
CssTurn == ~SamePlace /\ css_pc # "returning"

\* lines 209-211: the handler prints and returns False
css_Except ==
  /\ css_verdict' = "ERROR"
  /\ css_result' = FALSE
  /\ css_pc' = "returning"

\* lines 133-153: Popen, the reader thread, the initialisations; Popen and
\* Thread.start raise when they raised for test_channel
css_Start ==
  /\ CssTurn
  /\ css_pc = "start"
  /\ \/ /\ verdict[1] = "ERROR" /\ proc[1] = "none"
        /\ css_Except
        /\ UNCHANGED <<css_proc, css_now>>
     \/ /\ verdict[1] = "ERROR" /\ proc[1] # "none"
        /\ css_proc' = "running"
        /\ css_Except
        /\ UNCHANGED css_now
     \/ /\ verdict[1] # "ERROR"
        /\ css_proc' = "running"
        /\ css_now' = 0
        /\ css_pc' = "main"
        /\ UNCHANGED <<css_verdict, css_result>>
  /\ UNCHANGED <<css_extra_time, css_success_detected, css_connection_detected,
                 css_sent, css_waited>>
  /\ UNCHANGED <<mainVars, sessVars>>

\* after the main loop: line 174 decides between the extended loop and termination
css_AfterMain(sd, cd) ==
  IF css_NeedsExtended(sd, cd)
    THEN css_pc' = "extended" /\ css_extra_time' = css_now
    ELSE css_pc' = "terminate" /\ UNCHANGED css_extra_time

\* lines 155-171: one pass of the main loop, the sleep included
css_MainLoop ==
  /\ CssTurn
  /\ css_pc = "main"
  /\ IF css_now >= timeout \/ css_proc # "running"
       THEN /\ css_AfterMain(css_success_detected, css_connection_detected)
            /\ UNCHANGED <<css_now, css_success_detected, css_connection_detected>>
       ELSE LET sd == css_Scan(css_success_detected, output_lines[1], css_success_keywords)
                cd == css_Scan(css_connection_detected, output_lines[1], css_connecting_keywords)
            IN /\ css_success_detected' = sd
               /\ css_connection_detected' = cd
               /\ IF css_HonorSuccess(sd, css_now)
                    THEN css_AfterMain(sd, cd) /\ UNCHANGED css_now
                    ELSE /\ css_now' = css_now + 1
                         /\ UNCHANGED <<css_pc, css_extra_time>>
  /\ UNCHANGED <<css_proc, css_sent, css_waited, css_verdict, css_result>>
  /\ UNCHANGED <<mainVars, sessVars>>

\* lines 177-186: one pass of the extended loop, the sleep included
css_ExtendedLoop ==
  /\ CssTurn
  /\ css_pc = "extended"
  /\ IF css_now - css_extra_time >= extended_check \/ css_proc # "running"
       THEN /\ css_pc' = "terminate"
            /\ UNCHANGED <<css_now, css_success_detected>>
       ELSE IF \E n \in 1..Len(output_lines[1]) :
                 output_lines[1][n] \cap css_success_keywords # {}
         THEN /\ css_success_detected' = TRUE
              /\ css_pc' = "terminate"
              /\ UNCHANGED css_now
         ELSE /\ css_now' = css_now + 1
              /\ UNCHANGED <<css_pc, css_success_detected>>
  /\ UNCHANGED <<css_extra_time, css_connection_detected, css_proc, css_sent,
                 css_waited, css_verdict, css_result>>
  /\ UNCHANGED <<mainVars, sessVars>>

\* lines 189-193: taskkill on Windows (it raises when it raised for
\* test_channel), process.terminate() elsewhere
css_Terminate ==
  /\ CssTurn
  /\ css_pc = "terminate"
  /\ IF css_proc = "running"
       THEN IF platform = "Windows"
              THEN \/ /\ verdict[1] # "ERROR"
                      /\ css_proc' = "killed"
                      /\ css_sent' = Append(css_sent, "taskkill")
                      /\ css_pc' = "verdict"
                      /\ UNCHANGED <<css_verdict, css_result>>
                   \/ /\ verdict[1] = "ERROR"
                      /\ css_Except
                      /\ UNCHANGED <<css_proc, css_sent>>
              ELSE /\ css_sent' = Append(css_sent, "terminate")
                   /\ css_pc' = "wait"
                   /\ UNCHANGED <<css_proc, css_verdict, css_result>>
       ELSE /\ css_pc' = "verdict"
            /\ UNCHANGED <<css_proc, css_sent, css_verdict, css_result>>
  /\ UNCHANGED <<css_now, css_extra_time, css_success_detected, css_connection_detected,
                 css_waited>>
  /\ UNCHANGED <<mainVars, sessVars>>

\* lines 194-197: process.wait(timeout=2), one tick at a time; kill on TimeoutExpired
css_Wait ==
  /\ CssTurn
  /\ css_pc = "wait"
  /\ IF css_proc # "running"
       THEN /\ css_sent' = Append(css_sent, "wait")
            /\ css_pc' = "verdict"
            /\ UNCHANGED <<css_proc, css_waited, css_now>>
       ELSE IF css_waited >= wait_timeout * scale
         THEN /\ css_sent' = Append(Append(css_sent, "wait"), "kill")
              /\ css_proc' = "killed"
              /\ css_pc' = "verdict"
              /\ UNCHANGED <<css_waited, css_now>>
         ELSE /\ css_waited' = css_waited + 1
              /\ css_now' = css_now + 1
              /\ UNCHANGED <<css_proc, css_sent, css_pc>>
  /\ UNCHANGED <<css_extra_time, css_success_detected, css_connection_detected,
                 css_verdict, css_result>>
  /\ UNCHANGED <<mainVars, sessVars>>

\* lines 199-207: print the verdict and return
css_Decide ==
  /\ CssTurn
  /\ css_pc = "verdict"
  /\ css_verdict' = css_Verdict(css_success_detected, css_connection_detected)
  /\ css_result' = (css_verdict' = "SUCCESS")
  /\ css_pc' = "returning"
  /\ UNCHANGED <<css_now, css_extra_time, css_success_detected, css_connection_detected,
                 css_proc, css_sent, css_waited>>
  /\ UNCHANGED <<mainVars, sessVars>>

\* the two ffplay processes end together: by themselves, or after the stop
\* signal reached them
BothExit ==
  /\ TcTurn
  /\ proc[1] = "running"
  /\ proc' = [proc EXCEPT ![1] = IF sent[1] = << >> THEN "exited" ELSE "stopped"]
  /\ css_proc' = IF css_proc = "running"
                   THEN (IF css_sent = << >> THEN "exited" ELSE "stopped")
                   ELSE css_proc
  /\ UNCHANGED <<pc, now, extra_time, success_detected, connection_detected,
                 output_lines, reader, sent, waited, verdict, result, succ_at>>
  /\ UNCHANGED <<css_pc, css_now, css_extra_time, css_success_detected,
                 css_connection_detected, css_sent, css_waited, css_verdict, css_result>>
  /\ UNCHANGED mainVars

\* ------------------------------------------------------------------------ main
\* a pool thread that stays bound to the call it ran
ReleaseNever(threads, i) == threads

\* the pool thread that ran call i is idle again
Release(threads, i) == [w \in DOMAIN threads |-> IF threads[w] = i THEN 0 ELSE threads[w]]

\* The result tuple leaves test_channel: the future completes, the pool thread
\* is free again and the locals of the call are gone (the Popen object with
\* them: of the process only whether it still runs is left).
Return(i) ==
  /\ pc[i] \in {"returning", "raising"}
  /\ future' = [future EXCEPT ![i] = IF pc[i] = "raising" THEN "raised" ELSE "finished"]
  /\ future_result' = [future_result EXCEPT ![i] =
                         IF pc[i] = "raising" THEN << >>
                         ELSE <<entries[i][1], entries[i][2], result[i]>>]
  /\ worker' = Release(worker, i)
  /\ pc' = [pc EXCEPT ![i] = "done"]
  /\ now' = [now EXCEPT ![i] = 0]
  /\ extra_time' = [extra_time EXCEPT ![i] = 0]
  /\ success_detected' = [success_detected EXCEPT ![i] = FALSE]
  /\ connection_detected' = [connection_detected EXCEPT ![i] = FALSE]
  /\ output_lines' = [output_lines EXCEPT ![i] = << >>]
  /\ reader' = [reader EXCEPT ![i] = FALSE]
  /\ sent' = [sent EXCEPT ![i] = << >>]
  /\ waited' = [waited EXCEPT ![i] = 0]
  /\ succ_at' = [succ_at EXCEPT ![i] = -1]
  /\ verdict' = [verdict EXCEPT ![i] = "none"]
  /\ result' = [result EXCEPT ![i] = FALSE]
  /\ proc' = [proc EXCEPT ![i] = IF @ = "running" THEN "running" ELSE "none"]
  /\ UNCHANGED <<config, entries, log_file, main_pc, submitted,
                 yielded, working_channels, not_working_channels, log>>
  /\ UNCHANGED cssVars

\* ---------------------------------------------------------------- the playlist
\* A line of the file after line.strip(): start is the prefix the two
\* startswith tests of lines 111 and 115 find ("#EXTINF:", "http" or neither,
\* ""), fields is the line split at its commas.  Fields carry no blanks at
\* their ends, so the strip() of line 114 has nothing to remove.
RECURSIVE Join(_)
Join(fields) ==
  IF fields = << >> THEN ""
  ELSE IF Len(fields) = 1 THEN fields[1]
  ELSE fields[1] \o "," \o Join(Tail(fields))

\* line 112: re.search(r",(.+)", line) finds the first comma that has text
\* after it; group(1) runs from there to the end of the line
HasMatch(fields) == Len(fields) >= 2 /\ Join(Tail(fields)) # ""
Group1(fields) == Join(Tail(fields))

\* a #EXTINF line without a usable name forgets the name
NameAfterExtinfOrUnknown(current_name, fields) ==
  IF HasMatch(fields) THEN Group1(fields) ELSE "Unknown"

\* lines 112-114: current_name after a #EXTINF line
NameAfterExtinf(current_name, fields) ==
  IF HasMatch(fields) THEN Group1(fields) ELSE current_name

\* lines 109-117: the loop over the lines, from its state (current_name, entries)
RECURSIVE parse_loop(_, _, _)
parse_loop(lines, current_name, parsed) ==
  IF lines = << >> THEN parsed
  ELSE LET line == Head(lines)
       IN IF line.start = "#EXTINF:"
            THEN parse_loop(Tail(lines), NameAfterExtinf(current_name, line.fields), parsed)
          ELSE IF line.start = "http"
            THEN parse_loop(Tail(lines), current_name,
                            Append(parsed, <<current_name, Join(line.fields)>>))
          ELSE parse_loop(Tail(lines), current_name, parsed)

\* lines 106-118
parse_m3u_lines(lines) == parse_loop(lines, "Unknown", << >>)

\* main with the log opened before the playlist is looked for
MainStartLogFirst ==
  /\ main_pc = "start"
  /\ log_file' = "created"
  /\ IF ~playlist_exists
       THEN main_pc' = "returned" /\ UNCHANGED entries
       ELSE /\ entries' = parse_m3u_lines(m3u_lines)
            /\ main_pc' = IF Len(entries') = 0 THEN "collect" ELSE "submit"
  /\ UNCHANGED <<config, submitted, future,
                 future_result, yielded, worker, working_channels,
                 not_working_channels, log>>
  /\ UNCHANGED <<sessVars, cssVars>>

\* lines 214-231: the playlist check, the parsed entries, the fresh log file
MainStart ==
  /\ main_pc = "start"
  /\ IF ~playlist_exists
       THEN /\ main_pc' = "returned"
            /\ UNCHANGED <<entries, log_file>>
       ELSE /\ entries' = parse_m3u_lines(m3u_lines)
            /\ log_file' = "created"
            /\ main_pc' = IF Len(entries') = 0 THEN "collect" ELSE "submit"
  /\ UNCHANGED <<config, submitted, future,
                 future_result, yielded, worker, working_channels,
                 not_working_channels, log>>
  /\ UNCHANGED <<sessVars, cssVars>>

\* lines 236-239: one executor.submit of the dict comprehension
Submit ==
  /\ main_pc = "submit"
  /\ submitted' = submitted + 1
  /\ future' = [future EXCEPT ![submitted + 1] = "pending"]
  /\ main_pc' = IF submitted + 1 = Len(entries) THEN "collect" ELSE "submit"
  /\ UNCHANGED <<config, entries, log_file, future_result,
                 yielded, worker, working_channels, not_working_channels, log>>
  /\ UNCHANGED <<sessVars, cssVars>>

\* a pool with one thread too many
WorkersOneMore == 1..(max_threads + 1)

\* line 235: the pool's threads
Workers == 1..max_threads

\* ThreadPoolExecutor: an idle pool thread takes the oldest queued work item
\* and calls test_channel.  The threads are interchangeable: of the idle ones
\* the first is taken.
WorkerTake(w) ==
  /\ worker[w] = 0
  /\ \A v \in Workers : worker[v] = 0 => w <= v
  /\ \E i \in Sessions :
       /\ future[i] = "pending"
       /\ \A j \in Sessions : future[j] = "pending" => i <= j
       /\ future' = [future EXCEPT ![i] = "running"]
       /\ worker' = [worker EXCEPT ![w] = i]
       /\ pc' = [pc EXCEPT ![i] = "start"]
  /\ UNCHANGED <<config, entries, log_file, main_pc, submitted,
                 future_result, yielded, working_channels, not_working_channels, log>>
  /\ UNCHANGED <<now, extra_time, success_detected, connection_detected, output_lines,
                 reader, proc, sent, waited, verdict, result, succ_at>>
  /\ UNCHANGED cssVars

\* a dict keyed by channel instead: a later duplicate replaces the earlier one
ChannelKeys == { i \in 1..Len(entries) : \A j \in 1..Len(entries) : entries[j] = entries[i] => j <= i }

\* lines 236-239: the keys of future_to_channel, one future per submit
FutureKeys == 1..Len(entries)

\* dict[name] = url
DictPut(d, name, url) == { kv \in d : kv[1] # name } \cup { <<name, url>> }

\* lines 241-248 and 258-262: as_completed yields a completed future; its
\* result goes to one of the dicts and to the log.  future.result() re-raises
\* what the call raised.
Collect(i) ==
  /\ main_pc = "collect"
  /\ i \in FutureKeys \ yielded
  /\ future[i] \in {"finished", "raised"}
  /\ yielded' = yielded \cup {i}
  /\ IF future[i] = "raised"
       THEN /\ main_pc' = "crashed"
            /\ UNCHANGED <<working_channels, not_working_channels, log>>
       ELSE LET name == future_result[i][1]
                url == future_result[i][2]
                res == future_result[i][3]
            IN /\ working_channels' =
                    IF res THEN DictPut(working_channels, name, url) ELSE working_channels
               /\ not_working_channels' =
                    IF res THEN not_working_channels
                    ELSE DictPut(not_working_channels, name, url)
               /\ log' = Append(log, <<name, url, res>>)
               /\ UNCHANGED main_pc
  /\ UNCHANGED <<config, entries, log_file, submitted, future,
                 future_result, worker>>
  /\ UNCHANGED <<sessVars, cssVars>>

\* lines 241, 250-256: as_completed is exhausted, the pool is shut down, the
\* two dicts are printed
MainEnd ==
  /\ main_pc = "collect"
  /\ FutureKeys \subseteq yielded
  /\ \A i \in 1..Len(entries) : future[i] \in {"finished", "raised"}
  /\ main_pc' = "returned"
  /\ UNCHANGED <<config, entries, log_file, submitted, future,
                 future_result, yielded, worker, working_channels,
                 not_working_channels, log>>
  /\ UNCHANGED <<sessVars, cssVars>>

\* ------------------------------------------------------------- specifications
\* The lines of the modelled playlist files.
ExtinfLine(fields) == [start |-> "#EXTINF:", fields |-> fields]
UrlLine(url) == [start |-> "http", fields |-> <<url>>]
OtherLine(text) == [start |-> "", fields |-> <<text>>]
Urls == { c[2] : c \in Channels }

\* Playlist files of one named channel with up to MaxEntries URL lines
PoolFiles ==
  { <<ExtinfLine(<<"#EXTINF:-1", "A">>)>> \o [n \in DOMAIN us |-> UrlLine(us[n])] :
      us \in UNION { [1..n -> Urls] : n \in 0..MaxEntries } }

\* Playlist files of one #EXTINF line and one URL line
SessionFiles ==
  { <<ExtinfLine(<<"#EXTINF:-1", "A">>), UrlLine(u)>> : u \in Urls }

InitCommon ==
  /\ platform \in {"Windows", "Linux"}
  /\ entries = << >>
  /\ main_pc = "start"
  /\ submitted = 0
  /\ future = [i \in Sessions |-> "unsubmitted"]
  /\ future_result = [i \in Sessions |-> << >>]
  /\ yielded = {}
  /\ worker = [w \in Workers |-> 0]
  /\ working_channels = {}
  /\ not_working_channels = {}
  /\ log = << >>
  /\ pc = [i \in Sessions |-> "idle"]
  /\ now = [i \in Sessions |-> 0]
  /\ extra_time = [i \in Sessions |-> 0]
  /\ success_detected = [i \in Sessions |-> FALSE]
  /\ connection_detected = [i \in Sessions |-> FALSE]
  /\ output_lines = [i \in Sessions |-> << >>]
  /\ reader = [i \in Sessions |-> FALSE]
  /\ proc = [i \in Sessions |-> "none"]
  /\ sent = [i \in Sessions |-> << >>]
  /\ waited = [i \in Sessions |-> 0]
  /\ verdict = [i \in Sessions |-> "none"]
  /\ result = [i \in Sessions |-> FALSE]
  /\ succ_at = [i \in Sessions |-> -1]
  /\ css_pc = "idle"
  /\ css_now = 0
  /\ css_extra_time = 0
  /\ css_success_detected = FALSE
  /\ css_connection_detected = FALSE
  /\ css_proc = "none"
  /\ css_sent = << >>
  /\ css_waited = 0
  /\ css_verdict = "none"
  /\ css_result = FALSE

\* main() on any playlist of up to MaxEntries entries, on a coarse clock
Init ==
  /\ InitCommon
  /\ playlist_exists \in BOOLEAN
  /\ scale = PoolTicksPerUnit
  /\ line_cap = PoolMaxLines
  /\ m3u_lines \in PoolFiles
  /\ log_file = "absent"

\* main() on a one-entry playlist, on the clock of the code
InitSession ==
  /\ InitCommon
  /\ playlist_exists \in BOOLEAN
  /\ scale = TicksPerUnit
  /\ line_cap = MaxLines
  /\ m3u_lines \in SessionFiles
  /\ log_file \in {"absent", "old"}

\* The lines of the files the parser is run on: a named channel, a #EXTINF
\* line without comma, one that ends with its comma, one whose name holds a
\* comma, a URL, a line that is neither.
ParseLines ==
  { ExtinfLine(<<"#EXTINF:-1", "A">>), ExtinfLine(<<"#EXTINF:-1">>),
    ExtinfLine(<<"#EXTINF:-1", "">>), ExtinfLine(<<"#EXTINF:-1", "BBC", "One">>),
    UrlLine("http://u1"), OtherLine("#EXTM3U") }

ParseFiles == UNION { [1..n -> ParseLines] : n \in 0..MaxFileLines }

\* main() on any file of up to MaxFileLines lines, on a coarse clock
InitParse ==
  /\ InitCommon
  /\ playlist_exists \in BOOLEAN
  /\ scale = PoolTicksPerUnit
  /\ line_cap = PoolMaxLines
  /\ m3u_lines \in ParseFiles
  /\ log_file = "absent"

\* The playlist file with one entry more than the pool has threads
LiveFiles ==
  { <<ExtinfLine(<<"#EXTINF:-1", "A">>)>> \o
      [n \in 1..(max_threads + 1) |-> UrlLine("http://u1")] }

\* main() on a playlist that overfills the pool, on a coarse clock
InitLive ==
  /\ InitCommon
  /\ playlist_exists \in BOOLEAN
  /\ scale = PoolTicksPerUnit
  /\ line_cap = PoolMaxLines
  /\ m3u_lines \in LiveFiles
  /\ log_file = "absent"

Next ==
  \/ MainStart
  \/ Submit
  \/ \E w \in Workers : WorkerTake(w)
  \/ \E i \in Sessions : Start(i)
  \/ \E i \in Sessions, line \in Lines : read_stderr(i, line)
  \/ \E i \in Sessions : ProcessExit(i)
  \/ \E i \in Sessions : MainLoop(i)
  \/ \E i \in Sessions : ExtendedLoop(i)
  \/ \E i \in Sessions : Terminate(i)
  \/ \E i \in Sessions : Wait(i)
  \/ \E i \in Sessions : Decide(i)
  \/ \E i \in Sessions : Return(i)
  \/ \E i \in Sessions : Collect(i)
  \/ MainEnd

Spec == Init /\ [][Next]_vars
SpecSession == InitSession /\ [][Next]_vars
SpecParse == InitParse /\ [][Next]_vars

\* The stderr lines of the processes the two functions are compared on: those
\* of Lines, a line of a connecting keyword both functions know as such, a
\* line of a keyword only check_stream_status knows.
TwinLines == Lines \cup { {"buffer"}, {"AVFormat"} }

\* A pool thread is about to call test_channel for the only entry of the
\* playlist, and check_stream_status is called with the same arguments.
InitTwin ==
  /\ platform \in {"Windows", "Linux"}
  /\ playlist_exists = TRUE
  /\ scale = TicksPerUnit
  /\ line_cap = MaxLines
  /\ m3u_lines \in SessionFiles
  /\ entries = parse_m3u_lines(m3u_lines)
  /\ log_file = "created"
  /\ main_pc = "collect"
  /\ submitted = 1
  /\ future = [i \in Sessions |-> IF i = 1 THEN "running" ELSE "unsubmitted"]
  /\ future_result = [i \in Sessions |-> << >>]
  /\ yielded = {}
  /\ worker = [w \in Workers |-> IF w = 1 THEN 1 ELSE 0]
  /\ working_channels = {}
  /\ not_working_channels = {}
  /\ log = << >>
  /\ pc = [i \in Sessions |-> IF i = 1 THEN "start" ELSE "idle"]
  /\ now = [i \in Sessions |-> 0]
  /\ extra_time = [i \in Sessions |-> 0]
  /\ success_detected = [i \in Sessions |-> FALSE]
  /\ connection_detected = [i \in Sessions |-> FALSE]
  /\ output_lines = [i \in Sessions |-> << >>]
  /\ reader = [i \in Sessions |-> FALSE]
  /\ proc = [i \in Sessions |-> "none"]
  /\ sent = [i \in Sessions |-> << >>]
  /\ waited = [i \in Sessions |-> 0]
  /\ verdict = [i \in Sessions |-> "none"]
  /\ result = [i \in Sessions |-> FALSE]
  /\ succ_at = [i \in Sessions |-> -1]
  /\ css_pc = "start"
  /\ css_now = 0
  /\ css_extra_time = 0
  /\ css_success_detected = FALSE
  /\ css_connection_detected = FALSE
  /\ css_proc = "none"
  /\ css_sent = << >>
  /\ css_waited = 0
  /\ css_verdict = "none"
  /\ css_result = FALSE

\* the steps of the call of test_channel for entry 1
TcStep ==
  \/ Start(1)
  \/ MainLoop(1)
  \/ ExtendedLoop(1)
  \/ Terminate(1)
  \/ Wait(1)
  \/ Decide(1)

NextTwin ==
  \/ TcTurn /\ TcStep
  \/ \E line \in TwinLines : TcTurn /\ read_stderr(1, line)
  \/ BothExit
  \/ css_Start
  \/ css_MainLoop
  \/ css_ExtendedLoop
  \/ css_Terminate
  \/ css_Wait
  \/ css_Decide

\* test_channel and check_stream_status side by side on one stream
SpecTwin == InitTwin /\ [][NextTwin]_vars

\* The steps of the program's own threads: main, the pool threads.  The
\* ffplay processes and the stderr readers are left free.
Program ==
  \/ MainStart
  \/ Submit
  \/ \E w \in Workers : WorkerTake(w)
  \/ \E i \in Sessions : Start(i)
  \/ \E i \in Sessions : MainLoop(i)
  \/ \E i \in Sessions : ExtendedLoop(i)
  \/ \E i \in Sessions : Terminate(i)
  \/ \E i \in Sessions : Wait(i)
  \/ \E i \in Sessions : Decide(i)
  \/ \E i \in Sessions : Return(i)
  \/ \E i \in Sessions : Collect(i)
  \/ MainEnd

\* a thread of the program that can take a step is not held back forever
SpecLive == InitLive /\ [][Next]_vars /\ WF_vars(Program)

\* ---------------------------------------------------------------------- claims
Returning(i) == pc[i] = "returning"
Normal(i) == Returning(i) /\ verdict[i] # "ERROR"
InFlight == { i \in Sessions : pc[i] \notin {"idle", "done"} }
Logged(c) == Cardinality({ k \in 1..Len(log) : <<log[k][1], log[k][2]>> = c })
Listed(c) == Cardinality({ i \in 1..Len(entries) : entries[i] = c })

\* C1: every entry is reported exactly once: no result is logged twice while
\* the loop runs, and once main has drained the pool the log holds as many
\* records as the playlist has entries, as many for each (name, url) as the
\* playlist lists it.
C1_OneResultPerEntry ==
  /\ Len(log) = Cardinality(yielded)
  /\ yielded \subseteq 1..Len(entries)
  /\ \A c \in Channels : Logged(c) <= Listed(c)
  /\ (main_pc = "returned" /\ playlist_exists) =>
       /\ Len(log) = Len(entries)
       /\ yielded = 1..Len(entries)
       /\ \A c \in Channels : Logged(c) = Listed(c)

\* C1 witness: a drained run of a full playlist whose first two entries are
\* the same, with a working and a not-working result in the log.
C1_Witness ==
  /\ main_pc = "returned"
  /\ Len(entries) = MaxEntries
  /\ entries[1] = entries[2]
  /\ Len(log) = MaxEntries
  /\ \E k, l \in 1..Len(log) : log[k][3] /\ ~log[l][3]

\* C2: at most max_threads calls of test_channel are in flight, and the calls
\* in flight are exactly the ones the pool threads hold, one per thread.
C2_InFlightBounded ==
  /\ Cardinality(InFlight) <= max_threads
  /\ InFlight = { worker[w] : w \in DOMAIN worker } \ {0}
  /\ \A v, w \in DOMAIN worker : (worker[v] = worker[w] /\ worker[v] # 0) => v = w

\* C2 witness: every pool thread is busy and an entry waits in the queue.
C2_Witness ==
  /\ Cardinality(InFlight) = max_threads
  /\ \E i \in Sessions : future[i] = "pending"

\* C3: when test_channel has decided what it returns, and ever after, the
\* process it spawned no longer runs.
C3_NoLiveProcessAtReturn ==
  \A i \in Sessions : pc[i] \in {"returning", "done"} => proc[i] # "running"

\* C4: an exception inside a call ends in that call's handler with a
\* not-working result: no future raises, main's loop never dies of it, and a
\* drained run has logged an outcome for every entry.
C4_FailureIsolated ==
  /\ main_pc # "crashed"
  /\ \A i \in Sessions :
       /\ future[i] # "raised"
       /\ pc[i] # "raising"
       /\ verdict[i] = "ERROR" => (Returning(i) /\ ~result[i])
       /\ future[i] = "finished" =>
            /\ future_result[i][1] = entries[i][1]
            /\ future_result[i][2] = entries[i][2]
  /\ (main_pc = "returned" /\ playlist_exists) => Len(log) = Len(entries)

\* C4 witness: a call whose spawn failed sits in its handler while a sibling
\* call is in flight and the result of another, working, is already logged.
C4_Witness ==
  \E i, j \in Sessions :
    /\ i # j
    /\ Returning(i) /\ verdict[i] = "ERROR" /\ proc[i] = "none"
    /\ pc[j] = "start"
    /\ \E k \in 1..Len(log) : log[k][3]

\* C5 as claimed: the verdict follows the flags and the value returned for it
\* is the value of no other outcome.
C5_OutcomesDistinct ==
  \A i \in Sessions : Normal(i) =>
    /\ verdict[i] = Verdict(success_detected[i], connection_detected[i])
    /\ \A v \in {"SUCCESS", "MAYBE", "FAIL"} \ {verdict[i]} : ResultOf(v) # result[i]

\* C5 amended: the printed verdict follows the flags (success first, then
\* connection), and the value returned is TRUE for SUCCESS and FALSE for both
\* MAYBE and FAIL.
C5_VerdictByFlags ==
  \A i \in Sessions : Normal(i) =>
    /\ success_detected[i] => (verdict[i] = "SUCCESS" /\ result[i])
    /\ (~success_detected[i] /\ connection_detected[i]) => (verdict[i] = "MAYBE" /\ ~result[i])
    /\ (~success_detected[i] /\ ~connection_detected[i]) => (verdict[i] = "FAIL" /\ ~result[i])

\* C5 witness: a call that returns with both flags set.
C5_Witness ==
  \E i \in Sessions :
    Normal(i) /\ success_detected[i] /\ connection_detected[i] /\ verdict[i] = "SUCCESS"

\* C6 as claimed: a call that returns working has run for at least grace_period.
C6_NoSuccessBeforeGrace ==
  \A i \in Sessions : (Normal(i) /\ result[i]) => now[i] >= grace_period

\* C6 amended: a call returns working before grace_period only when the
\* process has exited on its own.
C6_GraceFloorWhileAlive ==
  \A i \in Sessions : (Normal(i) /\ result[i] /\ now[i] < grace_period) => proc[i] = "exited"

\* C6 witness: the success line arrived before grace_period, the process did
\* not exit on its own, and the call returns working at grace_period or later.
C6_Witness ==
  \E i \in Sessions :
    /\ Normal(i) /\ result[i]
    /\ succ_at[i] >= 0 /\ succ_at[i] < grace_period
    /\ proc[i] # "exited"
    /\ now[i] >= grace_period

\* C7: with a connecting line, no success line and a process that never exits
\* on its own, the call runs both loops to their end, prints MAYBE after
\* timeout + extended_check (one tick of slack) and has terminated the process.
C7_AmbiguousAfterBothPhases ==
  \A i \in Sessions :
    ( /\ Normal(i)
      /\ HasConnecting(output_lines[i])
      /\ ~HasSuccess(output_lines[i])
      /\ proc[i] # "exited" )
    => /\ verdict[i] = "MAYBE"
       /\ now[i] - waited[i] \in {timeout + extended_check, timeout + extended_check + 1}
       /\ proc[i] \in {"stopped", "killed"}

\* C8: a first success line that arrives at a time in [grace_period, timeout)
\* makes the call return working.  (succ_at = k says the line arrived in the
\* sleep that ended at tick k, so grace_period < k < timeout is inside the
\* interval.)
C8_SuccessAfterGrace ==
  \A i \in Sessions :
    (Normal(i) /\ succ_at[i] > grace_period /\ succ_at[i] < timeout) => result[i]

\* C9: no keyword of a line in output_lines is missed: when the verdict is
\* decided, a success line has set success_detected, and a connecting line
\* has set connection_detected unless success was detected.
C9_NoKeywordMissed ==
  \A i \in Sessions : Normal(i) =>
    /\ HasSuccess(output_lines[i]) => success_detected[i]
    /\ HasConnecting(output_lines[i]) => (connection_detected[i] \/ success_detected[i])

\* C10: a process that exits before the first poll and prints no keyword
\* gives a not-working result (FAIL, or ERROR from the handler) and no
\* terminate, wait, kill or taskkill is issued.
C10_ImmediateExitNoTermination ==
  \A i \in Sessions :
    ( /\ Returning(i)
      /\ proc[i] = "exited"
      /\ now[i] = 0
      /\ ~HasSuccess(output_lines[i])
      /\ ~HasConnecting(output_lines[i]) )
    => /\ ~result[i]
       /\ verdict[i] \in {"FAIL", "ERROR"}
       /\ reader[i] => verdict[i] = "FAIL"
       /\ sent[i] = << >>

\* C10 witness: such a call, with a line without keyword read, printing FAIL.
C10_Witness ==
  \E i \in Sessions :
    /\ Returning(i) /\ proc[i] = "exited" /\ now[i] = 0
    /\ Len(output_lines[i]) > 0
    /\ ~HasSuccess(output_lines[i]) /\ ~HasConnecting(output_lines[i])
    /\ verdict[i] = "FAIL" /\ sent[i] = << >>

\* C11: inside a call the two flags never go back to FALSE: whatever step is
\* taken before the call returns, a flag that is TRUE stays TRUE.
C11_FlagsMonotonic ==
  [][\A i \in Sessions : pc'[i] # "done" =>
        /\ success_detected[i] => success_detected'[i]
        /\ connection_detected[i] => connection_detected'[i]]_vars

\* C11 witness: a call about to return, after a wait for the terminated
\* process, with both flags still set.
C11_Witness ==
  \E i \in Sessions :
    Normal(i) /\ success_detected[i] /\ connection_detected[i] /\ waited[i] > 0

\* C15: with the process alive and now < timeout the main loop is left exactly
\* when success_detected is set and now >= grace_period, so a flag set before
\* grace_period ends the loop at the poll of tick grace_period; the loop is
\* left otherwise only on a process that has exited or at timeout.
C15_MainPhaseExit ==
  /\ [](\A i \in Sessions : (pc[i] = "main" /\ success_detected[i]) => now[i] <= grace_period)
  /\ [][\A i \in Sessions : (pc[i] = "main" /\ pc'[i] # "main") =>
          \/ proc[i] # "running"
          \/ now[i] >= timeout
          \/ success_detected'[i] /\ now[i] >= grace_period]_vars
  /\ [][\A i \in Sessions :
          (pc[i] = "main" /\ pc'[i] = "main" /\ now'[i] # now[i]) =>
             /\ proc[i] = "running"
             /\ now[i] < timeout
             /\ ~(success_detected'[i] /\ now[i] >= grace_period)]_vars

\* C15 witness: the success line arrived before grace_period and the main
\* loop has just ended at tick grace_period, the process still running.
C15_Witness ==
  \E i \in Sessions :
    /\ pc[i] = "terminate" /\ proc[i] = "running" /\ success_detected[i]
    /\ succ_at[i] >= 0 /\ succ_at[i] < grace_period
    /\ now[i] = grace_period

\* C16: the extended loop is entered exactly when the main loop ends with
\* connection_detected and without success_detected (any other call goes to
\* termination); it runs for at most extended_check, and it is left for
\* termination when a success line is found, the process has exited or
\* extended_check has passed, and not before.
C16_ExtendedPhase ==
  /\ [](\A i \in Sessions : pc[i] = "extended" =>
          /\ connection_detected[i] /\ ~success_detected[i]
          /\ now[i] - extra_time[i] <= extended_check)
  /\ [][\A i \in Sessions : (pc[i] = "main" /\ pc'[i] # "main") =>
          /\ pc'[i] \in {"extended", "terminate"}
          /\ pc'[i] = "extended" <=> (connection_detected'[i] /\ ~success_detected'[i])]_vars
  /\ [][\A i \in Sessions : (pc[i] = "extended" /\ pc'[i] # "extended") =>
          /\ pc'[i] = "terminate"
          /\ \/ success_detected'[i]
             \/ proc[i] # "running"
             \/ now[i] - extra_time[i] >= extended_check]_vars
  /\ [][\A i \in Sessions :
          (pc[i] = "extended" /\ pc'[i] = "extended" /\ now'[i] # now[i]) =>
             /\ proc[i] = "running"
             /\ ~HasSuccess(output_lines[i])
             /\ now[i] - extra_time[i] < extended_check]_vars

\* C16 witness: the extended loop has ended early on a success line.
C16_Witness ==
  \E i \in Sessions :
    /\ pc[i] = "terminate" /\ extra_time[i] > 0
    /\ success_detected[i] /\ connection_detected[i]
    /\ now[i] > extra_time[i]
    /\ now[i] - extra_time[i] < extended_check

\* C17 as claimed: a forced kill (process.kill or taskkill /F) is issued only
\* after a graceful stop.
C17_GracefulFirst ==
  \A i \in Sessions : sent[i] # << >> => sent[i][1] = "terminate"

\* C17 amended: away from Windows the calls are terminate, wait, kill in this
\* order, kill only after a wait of the full 2 units on a process still
\* running; on Windows the only call is taskkill /F; the first call is issued
\* after both loops and only on a running process, and the verdict is printed
\* after the last one, with the process gone.
C17_TerminationProtocol ==
  /\ [](\A i \in Sessions :
          /\ platform = "Windows" => sent[i] \in { << >>, <<"taskkill">> }
          /\ platform # "Windows" =>
               sent[i] \in { << >>, <<"terminate">>, <<"terminate", "wait">>,
                             <<"terminate", "wait", "kill">> }
          /\ (\E n \in 1..Len(sent[i]) : sent[i][n] = "kill") =>
               (waited[i] = wait_timeout * scale /\ proc[i] = "killed")
          /\ sent[i] # << >> => pc[i] \in {"wait", "verdict", "returning"}
          /\ (pc[i] = "verdict" \/ Normal(i)) =>
               (sent[i] # <<"terminate">> /\ proc[i] # "running"))
  /\ [][\A i \in Sessions : (sent[i] = << >> /\ sent'[i] # << >>) =>
          (pc[i] = "terminate" /\ proc[i] = "running")]_vars

\* C17 witness: the process exited within the wait and was not killed.
C17_Witness ==
  \E i \in Sessions :
    Normal(i) /\ sent[i] = <<"terminate", "wait">> /\ proc[i] = "stopped" /\ waited[i] > 0

\* C12: with the playlist file missing main returns at once: nothing is
\* parsed or submitted, no call starts, no process exists, nothing is logged
\* or collected, and the log file stays as it was, absent or with the content
\* of an earlier run.
C12_MissingPlaylistNoRun ==
  /\ [](~playlist_exists =>
          /\ main_pc \in {"start", "returned"}
          /\ log_file # "created"
          /\ entries = << >> /\ submitted = 0 /\ yielded = {} /\ log = << >>
          /\ working_channels = {} /\ not_working_channels = {}
          /\ \A w \in Workers : worker[w] = 0
          /\ \A i \in Sessions :
                pc[i] = "idle" /\ proc[i] = "none" /\ ~reader[i]
                /\ future[i] = "unsubmitted" /\ verdict[i] = "none")
  /\ [][~playlist_exists => log_file' = log_file]_vars

\* C12 witness: main has returned on a missing playlist, the log of an
\* earlier run still there.
C12_Witness ==
  ~playlist_exists /\ main_pc = "returned" /\ log_file = "old"

Parsed == main_pc # "start" /\ playlist_exists
UrlAt(lines) == { n \in 1..Len(lines) : lines[n].start = "http" }
KthUrl(lines, k) ==
  CHOOSE p \in UrlAt(lines) : Cardinality({ q \in UrlAt(lines) : q <= p }) = k
NamedBefore(lines, p) ==
  { q \in 1..(p - 1) : lines[q].start = "#EXTINF:" /\ HasMatch(lines[q].fields) }
LastOf(S) == CHOOSE x \in S : \A y \in S : y <= x

\* C13 as claimed: N URL lines give N entries in file order, and an entry is
\* named by the #EXTINF line right before its URL line, "Unknown" when that
\* line is not a #EXTINF line with a name.
C13_OwnMetadataLine ==
  Parsed =>
    /\ Len(entries) = Cardinality(UrlAt(m3u_lines))
    /\ \A k \in 1..Len(entries) :
         LET p == KthUrl(m3u_lines, k)
         IN /\ entries[k][2] = Join(m3u_lines[p].fields)
            /\ entries[k][1] =
                 IF p > 1 /\ m3u_lines[p - 1].start = "#EXTINF:"
                          /\ HasMatch(m3u_lines[p - 1].fields)
                   THEN Group1(m3u_lines[p - 1].fields)
                   ELSE "Unknown"

\* C13 amended: N URL lines give N entries in file order, and an entry is
\* named by the last #EXTINF line above its URL line, however far above, in
\* which a comma is followed by text: the name is the text after the first
\* such comma; "Unknown" only when no such line is above.
C13_LatestNameBinds ==
  Parsed =>
    /\ Len(entries) = Cardinality(UrlAt(m3u_lines))
    /\ \A k \in 1..Len(entries) :
         LET p == KthUrl(m3u_lines, k)
             named == NamedBefore(m3u_lines, p)
         IN /\ entries[k][2] = Join(m3u_lines[p].fields)
            /\ entries[k][1] =
                 IF named = {} THEN "Unknown"
                 ELSE Group1(m3u_lines[LastOf(named)].fields)

\* C13 witness: a parsed file in which a URL line stands under a #EXTINF line
\* without a name, below a named one.
C13_Witness ==
  /\ Parsed /\ Len(m3u_lines) = 3
  /\ HasMatch(m3u_lines[1].fields) /\ m3u_lines[1].start = "#EXTINF:"
  /\ ~HasMatch(m3u_lines[2].fields) /\ m3u_lines[2].start = "#EXTINF:"
  /\ m3u_lines[3].start = "http"
  /\ Len(entries) = 1 /\ entries[1][1] # "Unknown"

\* C14: the entry of a URL line right under a #EXTINF line that has text
\* after its last comma is named by that text.
C14_NameAfterLastComma ==
  Parsed =>
    \A k \in 1..Len(entries) :
      LET p == KthUrl(m3u_lines, k)
      IN (p > 1 /\ m3u_lines[p - 1].start = "#EXTINF:"
                /\ Len(m3u_lines[p - 1].fields) >= 2
                /\ m3u_lines[p - 1].fields[Len(m3u_lines[p - 1].fields)] # "")
           => entries[k][1] = m3u_lines[p - 1].fields[Len(m3u_lines[p - 1].fields)]

\* C20: after the run every logged entry is in the dict of its outcome and
\* not in the other one, and the two dicts hold as many channels as the
\* playlist has entries.
C20_PartitionsAccountForEntries ==
  (main_pc = "returned" /\ playlist_exists) =>
    /\ Cardinality(working_channels) + Cardinality(not_working_channels) = Len(entries)
    /\ \A k \in 1..Len(log) :
         LET c == <<log[k][1], log[k][2]>>
         IN IF log[k][3]
              THEN c \in working_channels /\ c \notin not_working_channels
              ELSE c \in not_working_channels /\ c \notin working_channels

\* C18: a call lasts at most timeout + extended_check + the wait of 2 units,
\* whatever the process prints and whenever it exits; every submitted entry
\* gets a pool thread, also the one submitted with all threads busy, and its
\* outcome is logged; main returns with one logged outcome per entry.
C18_RunTerminates ==
  /\ [](\A i \in Sessions :
          now[i] <= (main_timeout + main_extended_check + wait_timeout) * scale)
  /\ <>(/\ main_pc = "returned"
        /\ playlist_exists =>
             /\ Len(entries) > max_threads
             /\ Len(log) = Len(entries)
             /\ \A i \in 1..Len(entries) : future[i] = "finished" /\ i \in yielded)

\* C18 witness: the entry submitted with all pool threads busy has been
\* probed for the longest time a call can last, and is about to return.
C18_Witness ==
  /\ Len(entries) > max_threads
  /\ \E i \in Sessions :
       /\ i > max_threads /\ Returning(i)
       /\ now[i] = (main_timeout + main_extended_check + wait_timeout) * scale
       /\ sent[i] = <<"terminate", "wait", "kill">>

NoDivergingKeyword ==
  \A n \in 1..Len(output_lines[1]) : output_lines[1][n] \cap {"Opening", "AVFormat"} = {}

\* C19: on a stream without a line of "Opening" or "AVFormat", called with the
\* same arguments on processes that behave alike, every step of
\* check_stream_status lands where the step of test_channel before it landed
\* (same phase, same time, same flags), and the two return the same verdict
\* after the same termination calls.
C19_SameMachine ==
  /\ [][(NoDivergingKeyword' /\ <<css_pc, css_now>>' # <<css_pc, css_now>>) =>
          /\ css_pc' = pc'[1]
          /\ css_now' = now'[1]
          /\ css_extra_time' = extra_time'[1]
          /\ css_success_detected' = success_detected'[1]
          /\ css_connection_detected' = connection_detected'[1]
          /\ css_sent' = sent'[1]
          /\ css_proc' = proc'[1]]_vars
  /\ []((NoDivergingKeyword /\ pc[1] = "returning" /\ css_pc = "returning") =>
          /\ css_result = result[1]
          /\ css_verdict = verdict[1]
          /\ css_waited = waited[1])

\* C19 witness: both have returned SUCCESS on a stream whose success line came
\* in the extended loop, after a line of a connecting keyword.
C19_Witness ==
  /\ NoDivergingKeyword
  /\ pc[1] = "returning" /\ css_pc = "returning"
  /\ verdict[1] = "SUCCESS" /\ css_verdict = "SUCCESS"
  /\ extra_time[1] > 0 /\ css_extra_time = extra_time[1]
  /\ now[1] > extra_time[1]
  /\ Len(output_lines[1]) = 2

====
